---- MODULE Spec2Model ----
(***************************************************************************)
(* A model of cannect (github.com/yuxki/cannect): the locators of pkg/uri, *)
(* the content checkers of pkg/asset, the source adapters of pkg/catalog,  *)
(* the destination adapters of pkg/order, and validate / createCatalogSets *)
(* / run of cmd/cannect.                                                   *)
(*                                                                         *)
(* Strings that the code takes apart (URIs) are sequences of one-character *)
(* strings.  File contents are sequences of byte blocks: a block stands    *)
(* for a fixed byte string, and the PEM markers the checkers look for are  *)
(* sequences of blocks, so that containment is decided by comparing the    *)
(* content with the marker, position by position.                          *)
(***************************************************************************)
EXTENDS Integers, Sequences, FiniteSets, TLC

(***************************************************************************)
(* Sequences.                                                              *)
(***************************************************************************)

\* strings.HasPrefix, as the anchored prefix of a regular expression uses it.
HasPrefix(s, p) ==
  /\ Len(s) >= Len(p)
  /\ SubSeq(s, 1, Len(p)) = p

\* The part of s after its first n elements.
Drop(s, n) == SubSeq(s, n + 1, Len(s))

\* Whether the fixed pattern pat occurs in content somewhere (regexp.Match of
\* a pattern without metacharacters is substring containment).
Contains(content, pat) ==
  \E i \in 0..(Len(content) - Len(pat)) :
      SubSeq(content, i + 1, i + Len(pat)) = pat

\* The position of the first occurrence of c in s, 0 when there is none.
IndexOf(s, c) ==
  IF \E i \in 1..Len(s) : s[i] = c
  THEN CHOOSE i \in 1..Len(s) : s[i] = c /\ \A j \in 1..(i - 1) : s[j] # c
  ELSE 0

\* s cut at every occurrence of c: the sequence of the pieces between them.
RECURSIVE Split(_, _)
Split(s, c) ==
  LET i == IndexOf(s, c)
  IN  IF i = 0 THEN <<s>>
      ELSE <<SubSeq(s, 1, i - 1)>> \o Split(Drop(s, i), c)

\* The concatenation of a sequence of sequences, in order, nothing between.
RECURSIVE Flatten(_)
Flatten(ss) ==
  IF ss = <<>> THEN <<>> ELSE Head(ss) \o Flatten(Tail(ss))

\* One or more characters, all of class cls: the regular expression [cls]+.
Plus(s, cls) ==
  /\ Len(s) >= 1
  /\ \A i \in 1..Len(s) : s[i] \in cls

(***************************************************************************)
(* pkg/uri: the character classes and the four locator constructors.       *)
(***************************************************************************)

Lower == {"a", "b", "c", "d", "e", "f", "g", "h", "i", "j", "k", "l", "m",
          "n", "o", "p", "q", "r", "s", "t", "u", "v", "w", "x", "y", "z"}
Upper == {"A", "B", "C", "D", "E", "F", "G", "H", "I", "J", "K", "L", "M",
          "N", "O", "P", "Q", "R", "S", "T", "U", "V", "W", "X", "Y", "Z"}
Digit == {"0", "1", "2", "3", "4", "5", "6", "7", "8", "9"}

\* [-_a-z0-9A-Z]: the first path segment of a file URI.
FSWord == Lower \cup Upper \cup Digit \cup {"-", "_"}
\* [-_a-z0-9A-Z.]: every later path segment of a file URI.
FSWordDot == FSWord \cup {"."}
\* [_a-z0-9A-Z]: the name of an env URI.
EnvWord == Lower \cup Upper \cup Digit \cup {"_"}
\* word := "[-_a-zA-Z0-9.]" of NewGitHubURI.
GitHubWord == FSWord \cup {"."}

\* An error value: the sentinel it wraps (errors.Is) and the text it was
\* formatted with.  Nil is the nil error.
Err(kind, at) == [kind |-> kind, at |-> at]
Nil == Err("nil", <<>>)

\* ErrInvalidURI, wrapped with the URI text that did not match.
ErrInvalidURI(uri) == Err("invalid uri", uri)

ZeroURI == [text |-> <<>>, scheme |-> <<>>, path |-> <<>>]

FilePrefix == <<"f", "i", "l", "e", ":", "/", "/">>
EnvPrefix == <<"e", "n", "v", ":", "/", "/">>
GitHubPrefix == <<"g", "i", "t", "h", "u", "b", ":", "/", "/">>
S3Prefix == <<"s", "3", ":", "/", "/">>

\* ^(file):///?((?:[-_a-z0-9A-Z]+)(?:/[-_a-z0-9A-Z.]+)*)$
\* The path group starts with a character of FSWord, so a "/" right after
\* "file://" can only be the optional one, and it is not part of the path.
FSPathOf(uri) ==
  LET rest == Drop(uri, Len(FilePrefix))
  IN  IF rest # <<>> /\ Head(rest) = "/" THEN Tail(rest) ELSE rest

FSPathMatches(p) ==
  LET segs == Split(p, "/")
  IN  /\ Plus(segs[1], FSWord)
      /\ \A i \in 2..Len(segs) : Plus(segs[i], FSWordDot)

NewFSURI(uri) ==
  IF HasPrefix(uri, FilePrefix) /\ FSPathMatches(FSPathOf(uri))
  THEN [uri |-> [text |-> uri, scheme |-> SubSeq(uri, 1, 4), path |-> FSPathOf(uri)],
        err |-> Nil]
  ELSE [uri |-> ZeroURI, err |-> ErrInvalidURI(uri)]

\* An env constructor whose expression is not anchored at the end: it takes
\* the longest name the text begins with.
NewEnvURITruncating(uri) ==
  LET rest == Drop(uri, Len(EnvPrefix))
      n == IF \E i \in 1..Len(rest) : rest[i] \notin EnvWord
           THEN (CHOOSE i \in 1..Len(rest) :
                   rest[i] \notin EnvWord /\ \A j \in 1..(i - 1) : rest[j] \in EnvWord) - 1
           ELSE Len(rest)
  IN  IF HasPrefix(uri, EnvPrefix) /\ n >= 1
      THEN [uri |-> [text |-> SubSeq(uri, 1, Len(EnvPrefix) + n),
                     scheme |-> SubSeq(uri, 1, 3), path |-> SubSeq(rest, 1, n)],
            err |-> Nil]
      ELSE [uri |-> ZeroURI, err |-> ErrInvalidURI(uri)]

\* An env constructor that keeps the whole text as the path.
NewEnvURIWholePath(uri) ==
  IF HasPrefix(uri, EnvPrefix) /\ Plus(Drop(uri, Len(EnvPrefix)), EnvWord)
  THEN [uri |-> [text |-> uri, scheme |-> SubSeq(uri, 1, 3), path |-> uri],
        err |-> Nil]
  ELSE [uri |-> ZeroURI, err |-> ErrInvalidURI(uri)]

\* ^(env)://([_a-z0-9A-Z]+)$
NewEnvURI(uri) ==
  IF HasPrefix(uri, EnvPrefix) /\ Plus(Drop(uri, Len(EnvPrefix)), EnvWord)
  THEN [uri |-> [text |-> uri, scheme |-> SubSeq(uri, 1, 3),
                 path |-> Drop(uri, Len(EnvPrefix))],
        err |-> Nil]
  ELSE [uri |-> ZeroURI, err |-> ErrInvalidURI(uri)]

\* ^(github)://(/repos/(w+)/(w+)/contents/(w+(?:/w+)*)(?:\?ref=(w+))?)$
\* No character of the word class is "/" or "?" or "=", so the text splits in
\* one way only: at the first "?", and then at every "/".
GitHubQuery(path) ==
  LET q == IndexOf(path, "?")
  IN  IF q = 0 THEN <<>> ELSE Drop(path, q)

GitHubBeforeQuery(path) ==
  LET q == IndexOf(path, "?")
  IN  IF q = 0 THEN path ELSE SubSeq(path, 1, q - 1)

RefPrefix == <<"r", "e", "f", "=">>

GitHubPathMatches(path) ==
  LET segs == Split(GitHubBeforeQuery(path), "/")
      q == GitHubQuery(path)
  IN  /\ Len(segs) >= 6
      /\ segs[1] = <<>>
      /\ segs[2] = <<"r", "e", "p", "o", "s">>
      /\ Plus(segs[3], GitHubWord)
      /\ Plus(segs[4], GitHubWord)
      /\ segs[5] = <<"c", "o", "n", "t", "e", "n", "t", "s">>
      /\ \A i \in 6..Len(segs) : Plus(segs[i], GitHubWord)
      /\ \/ IndexOf(path, "?") = 0
         \/ HasPrefix(q, RefPrefix) /\ Plus(Drop(q, Len(RefPrefix)), GitHubWord)

ZeroGitHubURI ==
  [text |-> <<>>, scheme |-> <<>>, path |-> <<>>,
   owner |-> <<>>, repo |-> <<>>, repopath |-> <<>>, ref |-> <<>>]

\* A repository path that starts at "contents/".
GitHubRepoPathFromContents(before) ==
  LET segs == Split(before, "/")
  IN  Drop(before, 1 + 5 + 1 + Len(segs[3]) + 1 + Len(segs[4]) + 1)

\* The repository path: everything after "/repos/{owner}/{repo}/contents/".
GitHubRepoPath(before) ==
  LET segs == Split(before, "/")
  IN  Drop(before, 1 + 5 + 1 + Len(segs[3]) + 1 + Len(segs[4]) + 1 + 8 + 1)

NewGitHubURI(uri) ==
  LET path == Drop(uri, Len(GitHubPrefix))
      segs == Split(GitHubBeforeQuery(path), "/")
      q == GitHubQuery(path)
  IN  IF HasPrefix(uri, GitHubPrefix) /\ GitHubPathMatches(path)
      THEN [uri |-> [text |-> uri, scheme |-> SubSeq(uri, 1, 6), path |-> path,
                     owner |-> segs[3], repo |-> segs[4],
                     repopath |-> GitHubRepoPath(GitHubBeforeQuery(path)),
                     ref |-> IF q = <<>> THEN <<>> ELSE Drop(q, Len(RefPrefix))],
            err |-> Nil]
      ELSE [uri |-> ZeroGitHubURI, err |-> ErrInvalidURI(uri)]

ZeroS3URI ==
  [text |-> <<>>, scheme |-> <<>>, path |-> <<>>, bucket |-> <<>>, key |-> <<>>]

\* ^(s3)://(([^/]+)/(.*))$   ("." matches every character but a line feed)
NewS3URI(uri) ==
  LET path == Drop(uri, Len(S3Prefix))
      i == IndexOf(path, "/")
  IN  IF /\ HasPrefix(uri, S3Prefix)
         /\ i >= 2
         /\ \A j \in (i + 1)..Len(path) : path[j] # "\n"
      THEN [uri |-> [text |-> uri, scheme |-> SubSeq(uri, 1, 2), path |-> path,
                     bucket |-> SubSeq(path, 1, i - 1), key |-> Drop(path, i)],
            err |-> Nil]
      ELSE [uri |-> ZeroS3URI, err |-> ErrInvalidURI(uri)]

(***************************************************************************)
(* pkg/asset: the content checkers.  A content is a sequence of blocks.    *)
(***************************************************************************)

CertCategory == "certificate"
PrivKeyCategory == "privateKey"
EncPrivKeyCategory == "encPrivateKey"
CRLCategory == "CRL"

\* The patterns given to regexp.Match, cut into blocks.
CertPattern == <<"-----BEGIN ", "CERTIFICATE-----">>
PrivKeyPattern == <<"PRIVATE KEY-----">>
EncryptedPattern == <<"-----BEGIN ", "ENCRYPTED">>
EncPrivKeyPattern == <<"-----BEGIN ", "ENCRYPTED", " ", "PRIVATE KEY-----">>
CRLPattern == <<"-----BEGIN ", "X509 CRL-----">>

ErrUnexpectedCAAsset(category) == Err("unexpected CA asset", <<category>>)

CertiricateCheckContent(content) ==
  IF Contains(content, CertPattern) THEN Nil ELSE ErrUnexpectedCAAsset(CertCategory)

\* A private key checker that looks for "PRIVATE KEY-----" only.
PrivateKeyCheckContentOneCheck(content) ==
  IF ~Contains(content, PrivKeyPattern) THEN ErrUnexpectedCAAsset(PrivKeyCategory)
  ELSE Nil

PrivateKeyCheckContent(content) ==
  IF ~Contains(content, PrivKeyPattern) THEN ErrUnexpectedCAAsset(PrivKeyCategory)
  ELSE IF Contains(content, EncryptedPattern) THEN ErrUnexpectedCAAsset(PrivKeyCategory)
  ELSE Nil

\* An encrypted private key checker that looks for "PRIVATE KEY-----" only.
EncryptedPrivateKeyCheckContentAnyKey(content) ==
  IF Contains(content, PrivKeyPattern) THEN Nil
  ELSE ErrUnexpectedCAAsset(EncPrivKeyCategory)

EncryptedPrivateKeyCheckContent(content) ==
  IF Contains(content, EncPrivKeyPattern) THEN Nil
  ELSE ErrUnexpectedCAAsset(EncPrivKeyCategory)

CRLCheckContent(content) ==
  IF Contains(content, CRLPattern) THEN Nil ELSE ErrUnexpectedCAAsset(CRLCategory)

\* The checker createCatalogSets binds to a category, applied to a content.
CheckContent(category, content) ==
  CASE category = CertCategory -> CertiricateCheckContent(content)
    [] category = PrivKeyCategory -> PrivateKeyCheckContent(content)
    [] category = EncPrivKeyCategory -> EncryptedPrivateKeyCheckContent(content)
    [] category = CRLCategory -> CRLCheckContent(content)

(***************************************************************************)
(* cmd/cannect: validate and createCatalogSets.  A job is a CAnnectJSON:   *)
(* Catalogs, a sequence of [Alias, URI, Category], and Orders, a sequence  *)
(* of [CatalogAliases, URI].                                               *)
(***************************************************************************)

errAliasNotFound(alias) == Err("alias in destination not found in sources", <<alias>>)
errUndefinedAlias(alias) == Err("undefined alias", <<alias>>)
errUndefinedCategory(category) == Err("undefined category", <<category>>)
errUndefinedSrcScheme(scheme) == Err("undefined source scheme", scheme)
errUndefinedDstScheme(scheme) == Err("undefined destination scheme", scheme)
errOrderURIDuplicated(uri) == Err("order URI must not be duplicated", uri)

\* alsSet of validate: the aliases of the catalog entries.
AliasSet(jsn) == {jsn.Catalogs[i].Alias : i \in 1..Len(jsn.Catalogs)}

\* A check that takes every alias as defined.
FirstUndefinedNone(jsn, aliases) == 0

\* The first alias of an order that alsSet does not hold, as the inner loop
\* of validate meets it; 0 when every alias is defined.
FirstUndefined(jsn, aliases) ==
  IF \E k \in 1..Len(aliases) : aliases[k] \notin AliasSet(jsn)
  THEN CHOOSE k \in 1..Len(aliases) :
         /\ aliases[k] \notin AliasSet(jsn)
         /\ \A j \in 1..(k - 1) : aliases[j] \in AliasSet(jsn)
  ELSE 0

\* A lookup that finds no URI in the set.
DuplicatedNever(uri, dupSet) == FALSE

\* _, ok := dupSet[o.URI]: the URI text of the order is a key of the map.
Duplicated(uri, dupSet) == uri \in dupSet

\* The loop of validate from order idx on, dupSet holding the URIs seen.
RECURSIVE ValidateFrom(_, _, _)
ValidateFrom(jsn, idx, dupSet) ==
  IF idx > Len(jsn.Orders) THEN Nil
  ELSE LET o == jsn.Orders[idx]
           u == FirstUndefined(jsn, o.CatalogAliases)
       IN  IF u # 0 THEN errUndefinedAlias(o.CatalogAliases[u])
           ELSE IF ~Duplicated(o.URI, dupSet)
                THEN ValidateFrom(jsn, idx + 1, dupSet \cup {o.URI})
                ELSE errOrderURIDuplicated(o.URI)

\* A validate that looks at the first order only.
validateFirstOrder(jsn) ==
  ValidateFrom([jsn EXCEPT !.Orders = SubSeq(jsn.Orders, 1, 1)], 1, {})

validate(jsn) == ValidateFrom(jsn, 1, {})

\* srcSchemeReg.FindString: ^(file|github)
FileWord == <<"f", "i", "l", "e">>
EnvSchemeWord == <<"e", "n", "v">>
GitHubSchemeWord == <<"g", "i", "t", "h", "u", "b">>

SrcScheme(uri) ==
  IF HasPrefix(uri, FileWord) THEN FileWord
  ELSE IF HasPrefix(uri, GitHubSchemeWord) THEN GitHubSchemeWord
  ELSE <<>>

\* A destination scheme expression that knows file only.
DstSchemeFileOnly(uri) == IF HasPrefix(uri, FileWord) THEN FileWord ELSE <<>>

\* dstSchemeReg.FindString: ^(file|env)
DstScheme(uri) ==
  IF HasPrefix(uri, FileWord) THEN FileWord
  ELSE IF HasPrefix(uri, EnvSchemeWord) THEN EnvSchemeWord
  ELSE <<>>

Categories == {CertCategory, PrivKeyCategory, EncPrivKeyCategory, CRLCategory}

\* The first catalog entry with the alias (the innermost loop of
\* createCatalogSets, which breaks at the first match); 0 when there is none.
FindAlias(catalogs, alias) ==
  IF \E i \in 1..Len(catalogs) : catalogs[i].Alias = alias
  THEN CHOOSE i \in 1..Len(catalogs) :
         /\ catalogs[i].Alias = alias
         /\ \A j \in 1..(i - 1) : catalogs[j].Alias # alias
  ELSE 0

\* The two switches of createCatalogSets on one catalog entry: the checker of
\* its category, then the adapter of its scheme.
NewCatalog(cJSON) ==
  LET scheme == SrcScheme(cJSON.URI)
      none == [kind |-> "none", uri |-> ZeroURI, alias |-> cJSON.Alias,
               checker |-> cJSON.Category]
  IN  IF cJSON.Category \notin Categories
      THEN [catalog |-> none, err |-> errUndefinedCategory(cJSON.Category)]
      ELSE IF scheme = FileWord
      THEN LET r == NewFSURI(cJSON.URI)
           IN  IF r.err # Nil THEN [catalog |-> none, err |-> r.err]
               ELSE [catalog |-> [kind |-> "file", uri |-> r.uri,
                                  alias |-> cJSON.Alias, checker |-> cJSON.Category],
                     err |-> Nil]
      ELSE IF scheme = GitHubSchemeWord
      THEN LET r == NewGitHubURI(cJSON.URI)
           IN  IF r.err # Nil THEN [catalog |-> none, err |-> r.err]
               ELSE [catalog |-> [kind |-> "github", uri |-> r.uri,
                                  alias |-> cJSON.Alias, checker |-> cJSON.Category],
                     err |-> Nil]
      ELSE [catalog |-> none, err |-> errUndefinedSrcScheme(scheme)]

\* A loop over the aliases of one order that builds one adapter for an alias
\* the order names more than once.
RECURSIVE CatalogSetFromDistinct(_, _, _)
CatalogSetFromDistinct(catalogs, aliases, aliasIdx) ==
  IF aliasIdx > Len(aliases) THEN [set |-> <<>>, err |-> Nil]
  ELSE IF \E k \in 1..(aliasIdx - 1) : aliases[k] = aliases[aliasIdx]
  THEN CatalogSetFromDistinct(catalogs, aliases, aliasIdx + 1)
  ELSE LET i == FindAlias(catalogs, aliases[aliasIdx])
       IN  IF i = 0 THEN [set |-> <<>>, err |-> errAliasNotFound(aliases[aliasIdx])]
           ELSE LET c == NewCatalog(catalogs[i])
                IN  IF c.err # Nil THEN [set |-> <<>>, err |-> c.err]
                    ELSE LET rest == CatalogSetFromDistinct(catalogs, aliases, aliasIdx + 1)
                         IN  IF rest.err # Nil THEN rest
                             ELSE [set |-> <<c.catalog>> \o rest.set, err |-> Nil]

\* The loop over the aliases of one order, from alias aliasIdx on.
RECURSIVE CatalogSetFrom(_, _, _)
CatalogSetFrom(catalogs, aliases, aliasIdx) ==
  IF aliasIdx > Len(aliases) THEN [set |-> <<>>, err |-> Nil]
  ELSE LET i == FindAlias(catalogs, aliases[aliasIdx])
       IN  IF i = 0 THEN [set |-> <<>>, err |-> errAliasNotFound(aliases[aliasIdx])]
           ELSE LET c == NewCatalog(catalogs[i])
                IN  IF c.err # Nil THEN [set |-> <<>>, err |-> c.err]
                    ELSE LET rest == CatalogSetFrom(catalogs, aliases, aliasIdx + 1)
                         IN  IF rest.err # Nil THEN rest
                             ELSE [set |-> <<c.catalog>> \o rest.set, err |-> Nil]

\* The loop over the orders, from order idx on.
RECURSIVE CatalogSetsFrom(_, _)
CatalogSetsFrom(jsn, idx) ==
  IF idx > Len(jsn.Orders) THEN [sets |-> <<>>, err |-> Nil]
  ELSE LET one == CatalogSetFrom(jsn.Catalogs, jsn.Orders[idx].CatalogAliases, 1)
       IN  IF one.err # Nil THEN [sets |-> <<>>, err |-> one.err]
           ELSE LET rest == CatalogSetsFrom(jsn, idx + 1)
                IN  IF rest.err # Nil THEN rest
                    ELSE [sets |-> <<one.set>> \o rest.sets, err |-> Nil]

createCatalogSets(jsn) == CatalogSetsFrom(jsn, 1)

(***************************************************************************)
(* The jobs and the environment the program is run on.                     *)
(***************************************************************************)

\* The most orders in a job, the most aliases in a job (over all its orders),
\* and the largest concurrency limit.
MaxOrders == 3
MaxSources == 4
MaxConLimit == 2

FileURI(path) == FilePrefix \o path
EnvURI(name) == EnvPrefix \o name
GitHubURI(owner, repo, path) ==
  GitHubPrefix \o <<"/", "r", "e", "p", "o", "s", "/">> \o owner \o <<"/">> \o repo
    \o <<"/", "c", "o", "n", "t", "e", "n", "t", "s", "/">> \o path

\* The contents of the source files.
RootCert == <<"-----BEGIN ", "CERTIFICATE-----", "root">>
SubCert == <<"-----BEGIN ", "CERTIFICATE-----", "sub">>
RepoCRL == <<"-----BEGIN ", "X509 CRL-----", "crl">>
OldContent == <<"old", "old", "old", "old", "old", "old", "old">>

NoFile == [exists |-> FALSE, data |-> <<>>]
File(data) == [exists |-> TRUE, data |-> data]

\* The file names of the working directory, and what they hold at the start:
\* c and d are sources, a and b are destinations that exist already, h and m
\* are missing.
FileNames == {<<"a">>, <<"b">>, <<"c">>, <<"d">>, <<"h">>, <<"m">>}

InitialFS ==
  [p \in FileNames |->
     CASE p = <<"c">> -> File(RootCert)
       [] p = <<"d">> -> File(SubCert)
       [] p \in {<<"a">>, <<"b">>} -> File(OldContent)
       [] OTHER -> NoFile]

\* The catalog entries of the jobs: sources that can be fetched, a missing
\* file, a source of another category than declared, and entries that
\* createCatalogSets cannot build.
Catalogs ==
  << [Alias |-> "root", URI |-> FileURI(<<"c">>), Category |-> CertCategory],
     [Alias |-> "sub", URI |-> FileURI(<<"d">>), Category |-> CertCategory],
     [Alias |-> "gone", URI |-> FileURI(<<"m">>), Category |-> CertCategory],
     [Alias |-> "bad", URI |-> FileURI(<<"c">>), Category |-> PrivKeyCategory],
     [Alias |-> "crl", URI |-> GitHubURI(<<"o">>, <<"r">>, <<"p">>),
      Category |-> CRLCategory],
     [Alias |-> "s3", URI |-> S3Prefix \o <<"b", "/", "k">>, Category |-> CertCategory],
     [Alias |-> "ftp", URI |-> <<"f", "t", "p", ":", "/", "/", "c">>,
      Category |-> CertCategory],
     [Alias |-> "odd", URI |-> FileURI(<<"c">>), Category |-> "pkcs12"],
     [Alias |-> "mal", URI |-> FileURI(<<"c", ".", "p", "e", "m">>),
      Category |-> CertCategory] >>

\* The same catalog with the alias root declared a second time.
CatalogsDup ==
  Catalogs \o << [Alias |-> "root", URI |-> FileURI(<<"d">>), Category |-> CertCategory] >>

\* The orders the jobs are made of.
OrderPool ==
  << [CatalogAliases |-> <<"root", "sub">>, URI |-> FileURI(<<"a">>)],
     [CatalogAliases |-> <<"sub", "sub">>, URI |-> EnvURI(<<"X">>)],
     [CatalogAliases |-> <<"root">>, URI |-> EnvURI(<<"Y", "_", "1">>)],
     [CatalogAliases |-> <<"gone">>, URI |-> FileURI(<<"b">>)],
     [CatalogAliases |-> <<"root", "bad">>, URI |-> FileURI(<<"d">>)],
     [CatalogAliases |-> <<"crl">>, URI |-> FileURI(<<"h">>)],
     [CatalogAliases |-> <<"sub">>, URI |-> FileURI(<<"/", "a">>)],
     [CatalogAliases |-> <<"sub">>, URI |-> FileURI(<<"a">>)],
     [CatalogAliases |-> <<"ghost">>, URI |-> FileURI(<<"a">>)],
     [CatalogAliases |-> <<"root">>, URI |-> S3Prefix \o <<"b", "/", "k">>],
     [CatalogAliases |-> <<"root">>, URI |-> EnvURI(<<"X", "-", "1">>)],
     [CatalogAliases |-> <<"s3">>, URI |-> FileURI(<<"s">>)],
     [CatalogAliases |-> <<"ftp">>, URI |-> FileURI(<<"t">>)],
     [CatalogAliases |-> <<"odd">>, URI |-> FileURI(<<"u">>)],
     [CatalogAliases |-> <<"mal">>, URI |-> FileURI(<<"v">>)],
     [CatalogAliases |-> <<"root">>, URI |-> <<"e", "n", "v", "x", ":", "/", "/", "X">>],
     [CatalogAliases |-> <<"root", "gone">>, URI |-> EnvURI(<<"Z">>)] >>

\* The members of a set of pool positions, in pool order.
RECURSIVE Pick(_)
Pick(S) ==
  IF S = {} THEN <<>>
  ELSE LET i == CHOOSE i \in S : \A j \in S : i <= j
       IN  <<OrderPool[i]>> \o Pick(S \ {i})

RECURSIVE AliasCount(_)
AliasCount(orders) ==
  IF orders = <<>> THEN 0
  ELSE Len(Head(orders).CatalogAliases) + AliasCount(Tail(orders))

\* The order lists of the jobs: up to MaxOrders orders of the pool, in pool
\* order, with up to MaxSources aliases in all.
JobOrders ==
  {Pick(S) : S \in {T \in SUBSET (1..Len(OrderPool)) :
                      /\ Cardinality(T) \in 1..MaxOrders
                      /\ AliasCount(Pick(T)) <= MaxSources}}

(***************************************************************************)
(* The state of one run of main.                                           *)
(***************************************************************************)

VARIABLES
  cntJSON,      \* the job: [Catalogs, Orders]
  cfg,          \* runConfig: [EnvOut, ConLimit]
  goos,         \* runtime.GOOS
  fs,           \* the files of the working directory, by path
  envFile,      \* the variable envFile of run: "nil", "open" or "closed"
  envOut,       \* the file cfg.EnvOut: whether it exists, and the writes made to it
  pc,           \* where main is
  idx,          \* the loop variable of run
  catalogSets,  \* the result of createCatalogSets
  err,          \* the error main ends with
  limit,        \* the number of tokens in the channel limit
  g,            \* the errgroup: its first error, and whether its context is cancelled
  deadline,     \* whether the caller's context is done
  task,         \* the goroutine of each order started with g.Go
  firstFailed,  \* the first goroutine whose function returned an error; 0 when none
  call          \* a call of a function of pkg/uri or pkg/asset: [fn, arg, res]

vars == <<cntJSON, cfg, goos, fs, envFile, envOut, pc, idx, catalogSets, err,
          limit, g, deadline, task, firstFailed, call>>

defaultEnvOut == <<".", "/", "c", "a", "n", "n", "e", "c", "t", ".", "e", "n", "v">>

N == Len(cntJSON.Orders)

\* No function of the packages has been called yet; arg is a URI text or a
\* content to call one on.
NoCall(kind, arg) == [fn |-> "none", kind |-> kind, arg |-> arg, res |-> Nil]

NoTask ==
  [pc |-> "none", kind |-> "none", uri |-> ZeroURI, n |-> 1, buf |-> <<>>,
   off |-> 0, got |-> <<>>, err |-> Nil]

Init ==
  /\ cntJSON \in [Catalogs : {Catalogs, CatalogsDup}, Orders : JobOrders]
  /\ cfg \in [EnvOut : {defaultEnvOut}, ConLimit : 0..MaxConLimit]
  /\ goos \in {"linux", "windows"}
  /\ fs = InitialFS
  /\ envFile = "nil"
  /\ envOut = [exists |-> FALSE, writes |-> <<>>]
  /\ pc = "validate"
  /\ idx = 1
  /\ catalogSets = <<>>
  /\ err = Nil
  /\ limit = 0
  /\ g = [err |-> Nil, cancelled |-> FALSE]
  /\ deadline = FALSE
  /\ task = [i \in 1..Len(cntJSON.Orders) |-> NoTask]
  /\ firstFailed = 0
  /\ call = NoCall("none", <<>>)

(***************************************************************************)
(* main: validate, then run.                                               *)
(***************************************************************************)

\* main, cannect.go 744-747: err := validate(cntJSON); log.Fatal on an error.
Validate ==
  /\ pc = "validate"
  /\ LET e == validate(cntJSON)
     IN  IF e # Nil THEN pc' = "fatal" /\ err' = e
         ELSE pc' = "run" /\ err' = err
  /\ UNCHANGED <<call, cntJSON, cfg, goos, fs, envFile, envOut, idx, catalogSets, limit, g,
                 deadline, task, firstFailed>>

\* run, cannect.go 525-528.
CreateCatalogSets ==
  /\ pc = "run"
  /\ LET r == createCatalogSets(cntJSON)
     IN  IF r.err # Nil
         THEN pc' = "returned" /\ err' = r.err /\ catalogSets' = catalogSets
         ELSE pc' = "loop" /\ err' = err /\ catalogSets' = r.sets
  /\ UNCHANGED <<call, cntJSON, cfg, goos, fs, envFile, envOut, idx, limit, g, deadline,
                 task, firstFailed>>

\* The deferred envFile.Close() of run, which runs when run returns.
Deferred(f) == IF f = "open" THEN "closed" ELSE f

\* os.Create succeeds when the directory of the path exists; the working
\* directory has no subdirectory.
CanCreate(path) ==
  LET segs == Split(path, "/")
  IN  \A k \in 1..(Len(segs) - 1) : segs[k] = <<".">>

\* A delivery that takes the first of its sources only.
AfterFetchFirstOnly(i, kind, n) ==
  IF n <= 1 THEN "fetch"
  ELSE IF kind = "env" THEN "write" ELSE "return"

\* The position a delivery is at once it holds n - 1 of its sources.
AfterFetch(i, kind, n) ==
  IF n <= Len(catalogSets[i]) THEN "fetch"
  ELSE IF kind = "env" THEN "write" ELSE "return"

\* An iteration of the loop of run that creates the env file for every env
\* order.
DispatchCreatingEach ==
  /\ pc = "loop"
  /\ idx <= N
  /\ LET oJSON == cntJSON.Orders[idx]
         scheme == DstScheme(oJSON.URI)
         r == IF scheme = FileWord THEN NewFSURI(oJSON.URI) ELSE NewEnvURI(oJSON.URI)
         createFails == scheme = EnvSchemeWord /\ r.err = Nil /\ ~CanCreate(cfg.EnvOut)
         e == IF scheme = <<>> THEN errUndefinedDstScheme(scheme)
              ELSE IF r.err # Nil THEN r.err
              ELSE IF createFails THEN Err("open", cfg.EnvOut)
              ELSE Nil
     IN  IF e # Nil
         THEN /\ pc' = "returned"
              /\ err' = e
              /\ envFile' = Deferred(envFile)
              /\ UNCHANGED <<envOut, idx, task>>
         ELSE /\ pc' = pc
              /\ err' = err
              /\ idx' = idx + 1
              /\ IF scheme = EnvSchemeWord
                 THEN envFile' = "open" /\ envOut' = [exists |-> TRUE, writes |-> <<>>]
                 ELSE UNCHANGED <<envFile, envOut>>
              /\ task' = [task EXCEPT ![idx] =
                            [NoTask EXCEPT !.pc = "start",
                                           !.kind = IF scheme = FileWord THEN "file" ELSE "env",
                                           !.uri = r.uri]]
  /\ UNCHANGED <<call, cntJSON, cfg, goos, fs, catalogSets, limit, g, deadline, firstFailed>>

\* One iteration of the loop of run, cannect.go 539-582: the order is built
\* from its URI and its goroutine is started, or run returns the error.
Dispatch ==
  /\ pc = "loop"
  /\ idx <= N
  /\ LET oJSON == cntJSON.Orders[idx]
         scheme == DstScheme(oJSON.URI)
         r == IF scheme = FileWord THEN NewFSURI(oJSON.URI) ELSE NewEnvURI(oJSON.URI)
         createFails == scheme = EnvSchemeWord /\ r.err = Nil /\ envFile = "nil"
                          /\ ~CanCreate(cfg.EnvOut)
         e == IF scheme = <<>> THEN errUndefinedDstScheme(scheme)
              ELSE IF r.err # Nil THEN r.err
              ELSE IF createFails THEN Err("open", cfg.EnvOut)
              ELSE Nil
     IN  IF e # Nil
         THEN /\ pc' = "returned"
              /\ err' = e
              /\ envFile' = Deferred(envFile)
              /\ UNCHANGED <<envOut, idx, task>>
         ELSE /\ pc' = pc
              /\ err' = err
              /\ idx' = idx + 1
              /\ IF scheme = EnvSchemeWord /\ envFile = "nil"
                 THEN envFile' = "open" /\ envOut' = [exists |-> TRUE, writes |-> <<>>]
                 ELSE UNCHANGED <<envFile, envOut>>
              /\ task' = [task EXCEPT ![idx] =
                            [NoTask EXCEPT !.pc = "start",
                                           !.kind = IF scheme = FileWord THEN "file" ELSE "env",
                                           !.uri = r.uri]]
  /\ UNCHANGED <<call, cntJSON, cfg, goos, fs, catalogSets, limit, g, deadline, firstFailed>>

\* A Wait that does not wait for the goroutines of the group.
GroupIdleAlways(tasks) == TRUE

\* g.Wait, cannect.go 584-589: it returns once every goroutine started with
\* g.Go has returned, with the first error of the group.
\* The WaitGroup of the errgroup is at zero: no goroutine started with g.Go
\* is still to return.
GroupIdle(tasks) == \A i \in DOMAIN tasks : tasks[i].pc \in {"none", "done"}

Wait ==
  /\ pc = "loop"
  /\ idx > N
  /\ GroupIdle(task)
  /\ pc' = "returned"
  /\ err' = g.err
  /\ envFile' = Deferred(envFile)
  /\ UNCHANGED <<call, cntJSON, cfg, goos, fs, envOut, idx, catalogSets, limit, g, deadline,
                 task, firstFailed>>

(***************************************************************************)
(* The goroutine of order i: func() error of run, cannect.go 572-581, with *)
(* FSOrder.Order or EnvOrder.Order inside it.                              *)
(***************************************************************************)

\* A send that never blocks.
CanSendAlways(n, cap) == TRUE

\* A send on a channel of capacity cap that holds n elements goes through
\* when there is room; no goroutine of run receives before it has sent.
CanSend(n, cap) == n < cap

\* limit <- struct{}{}
Acquire(i) ==
  /\ task[i].pc = "start"
  /\ CanSend(limit, cfg.ConLimit)
  /\ limit' = limit + 1
  /\ task' = [task EXCEPT ![i].pc =
                IF task[i].kind = "file" THEN "order"
                ELSE AfterFetch(i, "env", 1)]
  /\ UNCHANGED <<call, cntJSON, cfg, goos, fs, envFile, envOut, pc, idx, catalogSets, err, g,
                 deadline, firstFailed>>

\* An open of the destination that keeps what the file holds.
CreateKeeping(i) ==
  /\ task[i].pc = "order"
  /\ LET path == task[i].uri.path
     IN  IF CanCreate(path) /\ path \in DOMAIN fs
         THEN /\ fs' = [fs EXCEPT ![path] = File(fs[path].data)]
              /\ task' = [task EXCEPT ![i].pc = AfterFetch(i, "file", 1), ![i].off = 0]
         ELSE /\ fs' = fs
              /\ task' = [task EXCEPT ![i].pc = "return", ![i].err = Err("open", path)]
  /\ UNCHANGED <<call, cntJSON, cfg, goos, envFile, envOut, pc, idx, catalogSets, err, limit, g,
                 deadline, firstFailed>>

\* os.Create of FSOrder.Order, order.go 46-50: the file is made, or cut to
\* length 0 when it exists.
Create(i) ==
  /\ task[i].pc = "order"
  /\ LET path == task[i].uri.path
     IN  IF CanCreate(path) /\ path \in DOMAIN fs
         THEN /\ fs' = [fs EXCEPT ![path] = File(<<>>)]
              /\ task' = [task EXCEPT ![i].pc = AfterFetch(i, "file", 1), ![i].off = 0]
         ELSE /\ fs' = fs
              /\ task' = [task EXCEPT ![i].pc = "return", ![i].err = Err("open", path)]
  /\ UNCHANGED <<call, cntJSON, cfg, goos, envFile, envOut, pc, idx, catalogSets, err, limit, g,
                 deadline, firstFailed>>

\* What the GitHub "get repository content" API answers for a locator.
GitHubContent(uri) ==
  IF uri.owner = <<"o">> /\ uri.repo = <<"r">> /\ uri.repopath = <<"p">>
  THEN File(RepoCRL)
  ELSE NoFile

\* A Fetch that returns what it read without a check of the content.
FetchUnchecked(catalog, files, done) ==
  LET src == IF catalog.kind = "file" THEN files[catalog.uri.path]
             ELSE GitHubContent(catalog.uri)
      path == catalog.uri.path
  IN  IF catalog.kind = "file" /\ path \notin DOMAIN files
        THEN [buf |-> <<>>, err |-> Err("open", path)]
      ELSE IF catalog.kind = "github" /\ done
        THEN [buf |-> <<>>, err |-> Err("context canceled", path)]
      ELSE IF ~src.exists
        THEN [buf |-> <<>>, err |-> Err("open", path)]
      ELSE [buf |-> src.data, err |-> Nil]

\* FSCatalog.Fetch, catalog.go 55-71, and GitHubCatalog.Fetch, catalog.go
\* 101-134, on the files as they are now; done is whether the context handed
\* to Fetch is done, which only the GitHub request looks at.
Fetch(catalog, files, done) ==
  LET src == IF catalog.kind = "file" THEN files[catalog.uri.path]
             ELSE GitHubContent(catalog.uri)
      path == catalog.uri.path
  IN  IF catalog.kind = "file" /\ path \notin DOMAIN files
        THEN [buf |-> <<>>, err |-> Err("open", path)]
      ELSE IF catalog.kind = "github" /\ done
        THEN [buf |-> <<>>, err |-> Err("context canceled", path)]
      ELSE IF ~src.exists
        THEN [buf |-> <<>>, err |-> Err("open", path)]
      ELSE IF CheckContent(catalog.checker, src.data) # Nil
        THEN [buf |-> <<>>,
              err |-> Err(CheckContent(catalog.checker, src.data).kind, path)]
      ELSE [buf |-> src.data, err |-> Nil]

\* A Fetch call after whose failure an env delivery goes on to its write
\* with what it holds.
FetchNextFlushing(i) ==
  /\ task[i].pc = "fetch"
  /\ LET t == task[i]
         catalog == catalogSets[i][t.n]
     IN  \E d \in (IF catalog.kind = "github" THEN {deadline, TRUE} ELSE {deadline}) :
           LET r == Fetch(catalog, fs, d \/ g.cancelled)
           IN  /\ deadline' = d
               /\ task' = [task EXCEPT ![i] =
                    IF r.err # Nil
                    THEN [t EXCEPT !.pc = IF t.kind = "env" THEN "write" ELSE "return",
                                   !.err = r.err]
                    ELSE IF t.kind = "file"
                    THEN [t EXCEPT !.pc = "write", !.buf = r.buf,
                                   !.got = Append(t.got, r.buf)]
                    ELSE [t EXCEPT !.pc = AfterFetch(i, "env", t.n + 1),
                                   !.n = t.n + 1,
                                   !.buf = t.buf \o r.buf,
                                   !.got = Append(t.got, r.buf)]]
  /\ UNCHANGED <<call, cntJSON, cfg, goos, fs, envFile, envOut, pc, idx, catalogSets, err,
                 limit, g, firstFailed>>

\* The Fetch call of the loop of FSOrder.Order (order.go 55-58) or of
\* EnvOrder.Order (order.go 102-107).  The caller's deadline may pass before
\* a GitHub request is made.
FetchNext(i) ==
  /\ task[i].pc = "fetch"
  /\ LET t == task[i]
         catalog == catalogSets[i][t.n]
     IN  \E d \in (IF catalog.kind = "github" THEN {deadline, TRUE} ELSE {deadline}) :
           LET r == Fetch(catalog, fs, d \/ g.cancelled)
           IN  /\ deadline' = d
               /\ task' = [task EXCEPT ![i] =
                    IF r.err # Nil
                    THEN [t EXCEPT !.pc = "return", !.err = r.err]
                    ELSE IF t.kind = "file"
                    THEN [t EXCEPT !.pc = "write", !.buf = r.buf,
                                   !.got = Append(t.got, r.buf)]
                    ELSE [t EXCEPT !.pc = AfterFetch(i, "env", t.n + 1),
                                   !.n = t.n + 1,
                                   !.buf = t.buf \o r.buf,
                                   !.got = Append(t.got, r.buf)]]
  /\ UNCHANGED <<call, cntJSON, cfg, goos, fs, envFile, envOut, pc, idx, catalogSets, err,
                 limit, g, firstFailed>>

\* A write that ends every chunk with a line feed.
WriteAtSeparated(data, off, buf) ==
  [k \in 1..(off + Len(buf) + 1) |->
     IF k <= off
     THEN (IF k <= Len(data) THEN data[k] ELSE "NUL")
     ELSE (IF k <= off + Len(buf) THEN buf[k - off] ELSE "\n")]

\* file.Write at the offset of the handle: the bytes replace what the file
\* holds there, and a file shorter than the offset is filled with zero bytes.
WriteAt(data, off, buf) ==
  LET pre == IF off <= Len(data) THEN SubSeq(data, 1, off)
             ELSE data \o [k \in 1..(off - Len(data)) |-> "NUL"]
  IN  pre \o buf \o Drop(data, off + Len(buf))

\* A line terminator that is the line feed on every platform.
NewLineUnix(os) == "\n"

\* nl of EnvOrder.Order, order.go 110-113.
NewLine(os) == IF os = "windows" THEN "\r\n" ELSE "\n"

\* fmt.Sprintf("export '%s'='%s'%s", e.uri.Path(), string(buf), nl)
ExportLine(path, buf, nl) ==
  <<"export '">> \o path \o <<"'='">> \o buf \o <<"'">> \o <<nl>>

\* file.Write(buf) of FSOrder.Order, order.go 60-63.
WriteFile(i) ==
  /\ task[i].pc = "write"
  /\ task[i].kind = "file"
  /\ LET t == task[i]
     IN  /\ fs' = [fs EXCEPT ![t.uri.path] =
                     File(WriteAt(fs[t.uri.path].data, t.off, t.buf))]
         /\ task' = [task EXCEPT ![i] =
                       [t EXCEPT !.pc = AfterFetch(i, "file", t.n + 1),
                                 !.n = t.n + 1,
                                 !.off = t.off + Len(t.buf),
                                 !.buf = <<>>]]
  /\ UNCHANGED <<call, cntJSON, cfg, goos, envFile, envOut, pc, idx, catalogSets, err, limit,
                 g, deadline, firstFailed>>

\* An env delivery that writes through a handle of its own, at offset 0 of
\* the file: its line takes the place of what the file held.
WriteEnvOwnHandle(i) ==
  /\ task[i].pc = "write"
  /\ task[i].kind = "env"
  /\ LET t == task[i]
     IN  /\ envOut' = [envOut EXCEPT !.writes =
                   <<[by |-> i, bytes |-> ExportLine(t.uri.path, t.buf, NewLine(goos))]>>]
         /\ task' = [task EXCEPT ![i].pc = "return"]
  /\ UNCHANGED <<call, cntJSON, cfg, goos, fs, envFile, pc, idx, catalogSets, err, limit, g,
                 deadline, firstFailed>>

\* e.file.WriteString of EnvOrder.Order, order.go 115-118: one write on the
\* shared handle, which fails once run has closed the handle.
WriteEnv(i) ==
  /\ task[i].pc = "write"
  /\ task[i].kind = "env"
  /\ LET t == task[i]
     IN  IF envFile = "open"
         THEN /\ envOut' = [envOut EXCEPT !.writes =
                   Append(@, [by |-> i,
                              bytes |-> ExportLine(t.uri.path, t.buf, NewLine(goos))])]
              /\ task' = [task EXCEPT ![i].pc = "return"]
         ELSE /\ envOut' = envOut
              /\ task' = [task EXCEPT ![i].pc = "return",
                                      ![i].err = Err("file already closed", cfg.EnvOut)]
  /\ UNCHANGED <<call, cntJSON, cfg, goos, fs, envFile, pc, idx, catalogSets, err, limit, g,
                 deadline, firstFailed>>

\* The end of the goroutine, cannect.go 575-580, and of the errgroup's
\* wrapper around it: on an error the function returns it, and the group
\* keeps the first error it is given and cancels its context; without an
\* error the function takes its token back out of limit.
Return(i) ==
  /\ task[i].pc = "return"
  /\ IF task[i].err # Nil
     THEN /\ g' = [err |-> IF g.err = Nil /\ firstFailed = 0 THEN task[i].err ELSE g.err,
                   cancelled |-> TRUE]
          /\ firstFailed' = IF firstFailed = 0 THEN i ELSE firstFailed
          /\ limit' = limit
     ELSE /\ limit > 0
          /\ limit' = limit - 1
          /\ UNCHANGED <<g, firstFailed>>
  /\ task' = [task EXCEPT ![i].pc = "done"]
  /\ UNCHANGED <<call, cntJSON, cfg, goos, fs, envFile, envOut, pc, idx, catalogSets, err,
                 deadline>>

Next ==
  \/ Validate
  \/ CreateCatalogSets
  \/ Dispatch
  \/ Wait
  \/ \E i \in 1..N : Acquire(i)
  \/ \E i \in 1..N : Create(i)
  \/ \E i \in 1..N : FetchNext(i)
  \/ \E i \in 1..N : WriteFile(i)
  \/ \E i \in 1..N : WriteEnv(i)
  \/ \E i \in 1..N : Return(i)

Spec == Init /\ [][Next]_vars

\* The Go scheduler runs every goroutine that can take a step.
Main == Validate \/ CreateCatalogSets \/ Dispatch \/ Wait

Goroutine(i) ==
  /\ i \in DOMAIN task
  /\ (Acquire(i) \/ Create(i) \/ FetchNext(i) \/ WriteFile(i) \/ WriteEnv(i) \/ Return(i))

\* The Go scheduler runs every goroutine that can take a step.
FairSpec ==
  /\ Spec
  /\ WF_vars(Main)
  /\ \A i \in 1..MaxOrders : WF_vars(Goroutine(i))

(***************************************************************************)
(* The packages used on their own: one call of a locator constructor of    *)
(* pkg/uri on a text, or of a content checker of pkg/asset on a content.   *)
(***************************************************************************)

\* The longest tail of a generated URI text and the longest content, in
\* characters and in blocks.
MaxTail == 4
MaxBlocks == 4

\* The characters the tails are made of: a word character, and the
\* characters the grammars treat apart.
TailChars == {"a", ".", "/", "-", "?"}

Tails(n) == UNION {[1..k -> TailChars] : k \in 0..n}

\* Texts of another scheme, and of the schemes of the package.
OtherPrefix == <<"n", "g", ":", "/", "/">>

ReposPart == <<"/", "r", "e", "p", "o", "s", "/">>
ContentsPart == <<"/", "c", "o", "n", "t", "e", "n", "t", "s", "/">>

\* What follows the repository path in the generated GitHub texts.
GitHubTails ==
  { <<>>,
    <<"?", "r", "e", "f", "=">>,
    <<"?", "r", "e", "f", "=", "v">>,
    <<"?", "r", "e", "f", "=", "v", "/", "w">>,
    <<"?", "r", "e", "v", "=", "v">>,
    <<"?", "r", "e", "f", "=", "v", "?", "r", "e", "f", "=", "w">> }

\* The texts of the tests of the package (uri_test.go) and of its users.
NamedTexts ==
  { <<"f", "i", "l", "e", ":", "/", "/", "a", "-", "b", "c", "/", "d", "_", "e", "/",
      "h", "2", "j", ".", "t", "e", "s", "t">>,
    <<"f", "i", "l", "e", ":", "/", "/", "c", "a", ".", "c", "r", "t">>,
    <<"f", "i", "l", "e", ":", "/", "/", "a", "/", "b", ".", "c", "/", "d">>,
    <<"e", "n", "v", ":", "/", "/", "a", "b", "c", "_", "d", "e", "f">>,
    <<"e", "n", "v", ":", "/", "/", "a", "b", "c", "_", "d", "e", "f", "-", "a", "a", "a">>,
    <<"e", "n", "v", ":", "/", "/", "a", "b", "c", "_", "d", "e", "f", "/", "a", "a", "a">>,
    <<"e", "n", "v", "x", ":", "/", "/", "X">>,
    <<"s", "3", ":", "/", "/", "b", "k", "t", "/", "d", "i", "r", "/", "k", "e", "y">>,
    <<"s", "3", ":", "/", "/", "b", "/", "k", "\n", "x">>,
    GitHubPrefix \o <<"/", "r", "e", "p", "o", "/", "o", "/", "r">> \o ContentsPart \o <<"p">> }

UriInputs ==
  {p \o t : p \in {FilePrefix, EnvPrefix, S3Prefix, OtherPrefix}, t \in Tails(MaxTail)}
    \cup {GitHubPrefix \o ReposPart \o o \o <<"/">> \o r \o ContentsPart \o t \o q :
            o \in {<<"o">>, <<>>}, r \in {<<"r">>, <<"r", ".">>},
            t \in Tails(MaxTail - 1), q \in GitHubTails}
    \cup NamedTexts

\* The blocks the contents are made of: the pieces of the PEM markers and
\* other bytes.
Blocks == {"-----BEGIN ", "CERTIFICATE-----", "PRIVATE KEY-----", "ENCRYPTED", " ",
           "X509 CRL-----", "RSA ", "x"}

ContentInputs == UNION {[1..k -> Blocks] : k \in 0..MaxBlocks}

LibInit ==
  /\ cntJSON = [Catalogs |-> <<>>, Orders |-> <<>>]
  /\ cfg = [EnvOut |-> defaultEnvOut, ConLimit |-> 0]
  /\ goos = "linux"
  /\ fs = InitialFS
  /\ envFile = "nil"
  /\ envOut = [exists |-> FALSE, writes |-> <<>>]
  /\ pc = "lib"
  /\ idx = 1
  /\ catalogSets = <<>>
  /\ err = Nil
  /\ limit = 0
  /\ g = [err |-> Nil, cancelled |-> FALSE]
  /\ deadline = FALSE
  /\ task = <<>>
  /\ firstFailed = 0
  /\ \/ \E u \in UriInputs : call = NoCall("uri", u)
     \/ \E c \in ContentInputs : call = NoCall("content", c)

\* The variables of a run of main, which a call of a package function leaves
\* alone.
runVars == <<cntJSON, cfg, goos, fs, envFile, envOut, pc, idx, catalogSets, err,
             limit, g, deadline, task, firstFailed>>

CallNewFSURI ==
  /\ pc = "lib" /\ call.fn = "none" /\ call.kind = "uri"
  /\ call' = [call EXCEPT !.fn = "NewFSURI", !.res = NewFSURI(call.arg)]
  /\ UNCHANGED runVars

CallNewEnvURI ==
  /\ pc = "lib" /\ call.fn = "none" /\ call.kind = "uri"
  /\ call' = [call EXCEPT !.fn = "NewEnvURI", !.res = NewEnvURI(call.arg)]
  /\ UNCHANGED runVars

CallNewGitHubURI ==
  /\ pc = "lib" /\ call.fn = "none" /\ call.kind = "uri"
  /\ call' = [call EXCEPT !.fn = "NewGitHubURI", !.res = NewGitHubURI(call.arg)]
  /\ UNCHANGED runVars

CallNewS3URI ==
  /\ pc = "lib" /\ call.fn = "none" /\ call.kind = "uri"
  /\ call' = [call EXCEPT !.fn = "NewS3URI", !.res = NewS3URI(call.arg)]
  /\ UNCHANGED runVars

\* CheckContent of the checker of one category.
CallCheckContent ==
  /\ pc = "lib" /\ call.fn = "none" /\ call.kind = "content"
  /\ \E category \in Categories :
       call' = [call EXCEPT !.fn = "CheckContent",
                            !.res = [category |-> category,
                                     err |-> CheckContent(category, call.arg)]]
  /\ UNCHANGED runVars

LibNext ==
  \/ CallNewFSURI
  \/ CallNewEnvURI
  \/ CallNewGitHubURI
  \/ CallNewS3URI
  \/ CallCheckContent

LibSpec == LibInit /\ [][LibNext]_vars

(***************************************************************************)
(* What the claims are stated with.                                        *)
(***************************************************************************)

\* The deliveries inside their Order call: the token is theirs and Order
\* has not returned.
InFlight == {i \in 1..N : task[i].pc \in {"order", "fetch", "write"}}

\* The deliveries whose Order call has returned, and those that returned an
\* error.
Returned == {i \in 1..N : task[i].pc \in {"return", "done"}}
Failed == {i \in Returned : task[i].err # Nil}

\* Every order of the job gets its delivery: the job passes validate and
\* createCatalogSets, and every destination URI is one run can dispatch.
Dispatchable ==
  /\ validate(cntJSON) = Nil
  /\ createCatalogSets(cntJSON).err = Nil
  /\ \A k \in 1..N :
       \/ NewFSURI(cntJSON.Orders[k].URI).err = Nil
       \/ NewEnvURI(cntJSON.Orders[k].URI).err = Nil /\ CanCreate(cfg.EnvOut)

\* The delivery i is the only one that has opened its destination path: no
\* other FSOrder of the run has created the same file.
SoleWriter(i) ==
  \A j \in 1..N :
    (j # i /\ task[j].kind = "file" /\ task[j].uri.path = task[i].uri.path)
      => task[j].pc \in {"none", "start", "order"}

\* C1: once FSOrder.Order has returned nil for a destination that no other
\* delivery has opened, it has fetched every source of the order, in the
\* declared order, and the file holds the fetched contents one after the
\* other and nothing else: no separator, nothing of what it held before.
C1_FileIsConcatenation ==
  \A i \in 1..N :
    (task[i].kind = "file" /\ task[i].pc \in {"return", "done"}
       /\ task[i].err = Nil /\ SoleWriter(i))
      => /\ Len(task[i].got) = Len(cntJSON.Orders[i].CatalogAliases)
         /\ fs[FSPathOf(cntJSON.Orders[i].URI)] = File(Flatten(task[i].got))

\* C1 witness: the order of root and sub for file://a, a file that held
\* other bytes before, has returned nil and the file is the chain.
C1_Witness ==
  \E i \in 1..N :
    /\ task[i].kind = "file" /\ task[i].pc = "done" /\ task[i].err = Nil
    /\ SoleWriter(i)
    /\ cntJSON.Orders[i].CatalogAliases = <<"root", "sub">>
    /\ InitialFS[<<"a">>] = File(OldContent)
    /\ fs[<<"a">>] = File(RootCert \o SubCert)

\* The writes delivery i has made to the env file.
EnvWritesOf(i) ==
  LET Mine(w) == w.by = i
  IN  SelectSeq(envOut.writes, Mine)

\* C2: once EnvOrder.Order has returned nil for env://NAME, the env file
\* holds one write of that delivery and no more, and it is the line
\* export 'NAME'='<the fetched contents, one after the other>' ended by the
\* line terminator of the platform.
C2_EnvLine ==
  \A i \in 1..N :
    task[i].kind = "env"
      => /\ Len(EnvWritesOf(i)) <= 1
         /\ (task[i].pc \in {"return", "done"} /\ task[i].err = Nil)
              => /\ Len(task[i].got) = Len(cntJSON.Orders[i].CatalogAliases)
                 /\ EnvWritesOf(i) =
                      << [by |-> i,
                          bytes |-> <<"export '">>
                                      \o Drop(cntJSON.Orders[i].URI, Len(EnvPrefix))
                                      \o <<"'='">> \o Flatten(task[i].got) \o <<"'">>
                                      \o <<IF goos = "windows" THEN "\r\n" ELSE "\n">>] >>

\* C2 witness: on Windows, the order of sub and sub for env://X has returned
\* nil and its line is in the env file.
C2_Witness ==
  \E i \in 1..N :
    /\ task[i].kind = "env" /\ task[i].pc = "done" /\ task[i].err = Nil
    /\ goos = "windows"
    /\ cntJSON.Orders[i].URI = EnvURI(<<"X">>)
    /\ \E k \in 1..Len(envOut.writes) :
         envOut.writes[k].bytes =
           <<"export '", "X", "'='">> \o SubCert \o SubCert \o <<"'", "\r\n">>

\* C3: in every state of run at most ConLimit deliveries are in flight (hold
\* a token and are inside Order), whatever the job, the interleaving and the
\* outcome of the deliveries.
C3_AtMostKInFlight == Cardinality(InFlight) <= cfg.ConLimit

\* C3 witness: the limit is reached while another delivery waits for a token.
C3_Witness ==
  /\ cfg.ConLimit >= 1
  /\ Cardinality(InFlight) = cfg.ConLimit
  /\ \E i \in 1..N : task[i].pc = "start"

\* Every step of Next moves main or one goroutine forward, so a run is
\* finite: it ends in a state where no step is enabled, and what holds in
\* every such state holds at the end of every run the scheduler completes.
\* (Validate and CreateCatalogSets are enabled exactly at their pc.)
Ended ==
  /\ pc \notin {"validate", "run"}
  /\ ~ENABLED (Dispatch \/ Wait \/ \E i \in 1..N : Goroutine(i))

\* C4 as stated: with every order dispatched and any K < N, run returns nil
\* only when every delivery has completed its Order call, and a run in which
\* no delivery fails ends with run having returned nil.
C4_Original ==
  /\ pc = "returned" /\ err = Nil /\ Dispatchable => Returned = 1..N
  /\ cfg.ConLimit < N /\ Failed = {} /\ Ended /\ Dispatchable
       => pc = "returned" /\ err = Nil

\* C4 amended: the same for a concurrency limit K with 1 <= K < N.
C4_ReturnsNilAfterAll ==
  /\ pc = "returned" /\ err = Nil /\ Dispatchable => Returned = 1..N
  /\ 1 <= cfg.ConLimit /\ cfg.ConLimit < N /\ Failed = {} /\ Ended /\ Dispatchable
       => pc = "returned" /\ err = Nil

\* C4 witness: run has returned nil for a job of N > K >= 1 orders, each of
\* them delivered.
C4_Witness ==
  /\ pc = "returned" /\ err = Nil
  /\ Dispatchable
  /\ 1 <= cfg.ConLimit /\ cfg.ConLimit < N
  /\ \A i \in 1..N : task[i].pc = "done"

\* C5: with K >= 1, a run in which a delivery has failed ends with every
\* started goroutine finished and run having returned a non-nil error.
C5_TerminatesOnFailure ==
  cfg.ConLimit >= 1 /\ Failed # {} /\ Ended /\ Dispatchable
    => pc = "returned" /\ err # Nil /\ GroupIdle(task)

\* C6: when run returns after the goroutines of two or more deliveries have
\* returned an error, the error it returns is the error of the one that
\* returned first.
C6_FirstErrorReturned ==
  [][(/\ pc = "loop" /\ pc' = "returned"
       /\ Cardinality({i \in 1..N : task[i].pc = "done" /\ task[i].err # Nil}) >= 2)
       => err' = task[firstFailed].err]_vars

\* No I/O has been done: no file is changed, the env file is not made, no
\* delivery is started (and so no source is read).
NoIO ==
  /\ fs = InitialFS
  /\ envFile = "nil"
  /\ ~envOut.exists
  /\ \A i \in 1..N : task[i].pc = "none"

\* Order k references an alias that no catalog entry has.
UndefinedIn(k) ==
  \E a \in 1..Len(cntJSON.Orders[k].CatalogAliases) :
    \A c \in 1..Len(cntJSON.Catalogs) :
      cntJSON.Catalogs[c].Alias # cntJSON.Orders[k].CatalogAliases[a]

\* Order k has the URI text of an order before it.
DuplicateAt(k) == \E j \in 1..(k - 1) : cntJSON.Orders[j].URI = cntJSON.Orders[k].URI

\* The first order with an undefined alias, and the first order that
\* duplicates a URI; N + 1 when there is none.
FirstUndefinedOrder ==
  IF \E k \in 1..N : UndefinedIn(k)
  THEN CHOOSE k \in 1..N : UndefinedIn(k) /\ \A j \in 1..(k - 1) : ~UndefinedIn(j)
  ELSE N + 1

FirstDuplicateOrder ==
  IF \E k \in 1..N : DuplicateAt(k)
  THEN CHOOSE k \in 1..N : DuplicateAt(k) /\ \A j \in 1..(k - 1) : ~DuplicateAt(j)
  ELSE N + 1

\* C7 as stated: a job with an undefined alias fails at resolution with the
\* undefined-alias error, and no I/O is done.
C7_Original ==
  (FirstUndefinedOrder <= N /\ pc # "validate")
    => pc = "fatal" /\ err.kind = "undefined alias" /\ NoIO

\* C7 amended: a job with an undefined alias fails at resolution and no I/O
\* is done; the error is the undefined-alias error, unless an order before
\* the first one with an undefined alias duplicates a destination URI, and
\* then it is the duplicate-destination error.
C7_UndefinedAliasFails ==
  (FirstUndefinedOrder <= N /\ pc # "validate")
    => /\ pc = "fatal"
       /\ NoIO
       /\ err.kind = IF FirstDuplicateOrder < FirstUndefinedOrder
                     THEN "order URI must not be duplicated"
                     ELSE "undefined alias"

\* C7 witness: validate has ended the program with the undefined-alias error
\* for the alias ghost.
C7_Witness ==
  /\ pc = "fatal"
  /\ FirstUndefinedOrder <= N
  /\ err = [kind |-> "undefined alias", at |-> <<"ghost">>]

\* C8 as stated: a job with two orders of the same URI text fails at
\* resolution with the duplicate-destination error, and no I/O is done.
C8_Original ==
  (FirstDuplicateOrder <= N /\ pc # "validate")
    => pc = "fatal" /\ err.kind = "order URI must not be duplicated" /\ NoIO

\* C8 amended: a job with two orders of the same URI text fails at
\* resolution and no I/O is done; the error is the duplicate-destination
\* error, unless the first duplicating order or an order before it has an
\* undefined alias, and then it is the undefined-alias error.
C8_DuplicateDestinationFails ==
  (FirstDuplicateOrder <= N /\ pc # "validate")
    => /\ pc = "fatal"
       /\ NoIO
       /\ err.kind = IF FirstUndefinedOrder <= FirstDuplicateOrder
                     THEN "undefined alias"
                     ELSE "order URI must not be duplicated"

\* C8 witness: validate has ended the program with the duplicate-destination
\* error for file://a.
C8_Witness ==
  /\ pc = "fatal"
  /\ FirstDuplicateOrder <= N
  /\ err = [kind |-> "order URI must not be duplicated", at |-> FileURI(<<"a">>)]

\* C9: a job whose catalog declares an alias twice is rejected at
\* resolution: run does not get to its loop and no delivery is started.
C9_DuplicateAliasRejected ==
  (\E c, d \in 1..Len(cntJSON.Catalogs) :
      c # d /\ cntJSON.Catalogs[c].Alias = cntJSON.Catalogs[d].Alias)
    => pc # "loop" /\ \A i \in 1..N : task[i].pc = "none"

\* The catalog entries the orders of the job reference.
ReferencedCatalogs ==
  {c \in 1..Len(cntJSON.Catalogs) :
     \E k \in 1..N : \E a \in 1..Len(cntJSON.Orders[k].CatalogAliases) :
       FindAlias(cntJSON.Catalogs, cntJSON.Orders[k].CatalogAliases[a]) = c}

\* C10: for a job that passes validate, createCatalogSets builds the
\* adapters exactly when every catalog entry the orders reference (of a
\* defined category) has a URI that is a file, github or s3 locator.
C10_SourceSchemes ==
  (pc \in {"loop", "returned"}
     /\ \A c \in ReferencedCatalogs : cntJSON.Catalogs[c].Category \in Categories)
    => (catalogSets # <<>>
          <=> \A c \in ReferencedCatalogs :
                \/ NewFSURI(cntJSON.Catalogs[c].URI).err = Nil
                \/ NewGitHubURI(cntJSON.Catalogs[c].URI).err = Nil
                \/ NewS3URI(cntJSON.Catalogs[c].URI).err = Nil)

\* The scheme a URI text names: what stands before its first colon.
SchemeOf(uri) ==
  LET i == IndexOf(uri, ":")
  IN  IF i = 0 THEN <<>> ELSE SubSeq(uri, 1, i - 1)

\* The URI text matches the grammar of a file or of an env locator.
DstGrammar(uri) == NewFSURI(uri).err = Nil \/ NewEnvURI(uri).err = Nil

\* run has built the delivery of order k and started its goroutine.
Built(k) == task[k].pc # "none"

\* run has returned out of its loop, at order idx.
ReturnedAtOrder == pc = "returned" /\ catalogSets # <<>> /\ idx <= N

Constructors == {"NewFSURI", "NewEnvURI", "NewGitHubURI", "NewS3URI"}

Sep == <<":", "/", "/">>

PrefixOf(fn) ==
  CASE fn = "NewFSURI" -> <<"f", "i", "l", "e">> \o Sep
    [] fn = "NewEnvURI" -> <<"e", "n", "v">> \o Sep
    [] fn = "NewGitHubURI" -> <<"g", "i", "t", "h", "u", "b">> \o Sep
    [] fn = "NewS3URI" -> <<"s", "3">> \o Sep

\* C13: a constructor that rejects its input returns the invalid-URI error
\* with a locator whose fields are all empty; it rejects every text of
\* another scheme, and every text in which a character that the grammar
\* does not allow follows a valid beginning (for env: "-", "/", ".", "?"
\* after the name); a locator it does return has the whole input as its
\* text, never a part of it.
C13_StrictRejection ==
  call.fn \in Constructors
    => /\ call.res.err # Nil
            => /\ call.res.err = [kind |-> "invalid uri", at |-> call.arg]
               /\ \A f \in DOMAIN call.res.uri : call.res.uri[f] = <<>>
       /\ call.res.err = Nil => call.res.uri.text = call.arg
       /\ ~HasPrefix(call.arg, PrefixOf(call.fn)) => call.res.err # Nil
       /\ (/\ call.fn = "NewEnvURI"
           /\ \E i \in 1..Len(call.arg) : i > 6 /\ call.arg[i] \in {"-", "/", ".", "?"})
            => call.res.err # Nil
       /\ (/\ call.fn \in {"NewFSURI", "NewGitHubURI"}
           /\ call.arg # <<>>
           /\ call.arg[Len(call.arg)] \in {"/", "?"})
            => call.res.err # Nil

\* C13 witness: NewEnvURI has rejected env://abc_def-aaa, a name followed by
\* "-aaa", with the invalid-URI error and an empty locator.
C13_Witness ==
  /\ call.fn = "NewEnvURI"
  /\ call.arg = <<"e", "n", "v", ":", "/", "/", "a", "b", "c", "_", "d", "e", "f",
                  "-", "a", "a", "a">>
  /\ call.res.err.kind = "invalid uri"
  /\ call.res.uri.text = <<>> /\ call.res.uri.path = <<>>

\* A path of one or more non-empty segments over [-_a-zA-Z0-9], cut at "/",
\* of which the last, and only the last, may hold "." too.
DotInLastOnly(p) ==
  LET segs == Split(p, "/")
  IN  \A i \in 1..Len(segs) :
        /\ segs[i] # <<>>
        /\ \A c \in 1..Len(segs[i]) :
             \/ segs[i][c] \in Lower \cup Upper \cup Digit \cup {"-", "_"}
             \/ i = Len(segs) /\ segs[i][c] = "."

\* C14: NewFSURI accepts a text exactly when it is "file://", then an
\* optional "/", then such a path.
C14_FileGrammar ==
  call.fn = "NewFSURI"
    => (call.res.err = Nil
          <=> /\ HasPrefix(call.arg, <<"f", "i", "l", "e">> \o Sep)
              /\ \/ DotInLastOnly(Drop(call.arg, 7))
                 \/ /\ Len(call.arg) > 7
                    /\ call.arg[8] = "/"
                    /\ DotInLastOnly(Drop(call.arg, 8)))

\* Whether the character c occurs in s.
Has(s, c) == \E i \in 1..Len(s) : s[i] = c

\* C15: the fields of a GitHub locator are the parts of its path,
\* /repos/{owner}/{repo}/contents/{path} and then ?ref={ref} when there is a
\* ref; Ref is empty exactly when the text has no "?ref=", and a text that
\* ends in "?ref=" is rejected.  The fields of an S3 locator are the parts
\* of its path: Bucket, up to the first "/", and Key, all after it.
C15_SchemeFields ==
  /\ (call.fn = "NewGitHubURI" /\ call.res.err = Nil)
       => LET u == call.res.uri
          IN  /\ u.path = <<"/", "r", "e", "p", "o", "s", "/">> \o u.owner \o <<"/">>
                            \o u.repo \o <<"/", "c", "o", "n", "t", "e", "n", "t", "s", "/">>
                            \o u.repopath
                            \o (IF u.ref = <<>> THEN <<>>
                                ELSE <<"?", "r", "e", "f", "=">> \o u.ref)
              /\ u.owner # <<>> /\ ~Has(u.owner, "/")
              /\ u.repo # <<>> /\ ~Has(u.repo, "/")
              /\ u.repopath # <<>> /\ ~Has(u.repopath, "?")
              /\ ~Has(u.ref, "?")
              /\ u.ref = <<>> <=> ~Contains(call.arg, <<"?", "r", "e", "f", "=">>)
  /\ (/\ call.fn = "NewGitHubURI"
      /\ Len(call.arg) >= 5
      /\ SubSeq(call.arg, Len(call.arg) - 4, Len(call.arg)) = <<"?", "r", "e", "f", "=">>)
       => call.res.err # Nil
  /\ (call.fn = "NewS3URI" /\ call.res.err = Nil)
       => LET u == call.res.uri
          IN  /\ u.bucket \o <<"/">> \o u.key = u.path
              /\ u.bucket # <<>> /\ ~Has(u.bucket, "/")

\* C15 witness: NewGitHubURI has returned a locator with a ref, or one
\* without; NewS3URI has returned the locator of s3://bkt/dir/key.
C15_Witness ==
  \/ /\ call.fn = "NewGitHubURI" /\ call.res.err = Nil
     /\ call.res.uri.owner = <<"o">> /\ call.res.uri.repo = <<"r", ".">>
     /\ call.res.uri.repopath = <<"a", "/", "a">> /\ call.res.uri.ref = <<"v">>
  \/ /\ call.fn = "NewS3URI" /\ call.res.err = Nil
     /\ call.res.uri.bucket = <<"b", "k", "t">>
     /\ call.res.uri.key = <<"d", "i", "r", "/", "k", "e", "y">>

\* C16: the checker of a category accepts a content exactly when it holds
\* the marker of the category (and, for privateKey, does not hold
\* "-----BEGIN ENCRYPTED"); what it rejects it rejects with an error value.
C16_CheckContent ==
  call.fn = "CheckContent"
    => LET content == call.arg
           ok == call.res.err = Nil
       IN  /\ call.res.category = "certificate"
                => (ok <=> Contains(content, <<"-----BEGIN ", "CERTIFICATE-----">>))
           /\ call.res.category = "privateKey"
                => (ok <=> /\ Contains(content, <<"PRIVATE KEY-----">>)
                           /\ ~Contains(content, <<"-----BEGIN ", "ENCRYPTED">>))
           /\ call.res.category = "encPrivateKey"
                => (ok <=> Contains(content, <<"-----BEGIN ", "ENCRYPTED", " ",
                                                "PRIVATE KEY-----">>))
           /\ call.res.category = "CRL"
                => (ok <=> Contains(content, <<"-----BEGIN ", "X509 CRL-----">>))
           /\ ~ok => call.res.err.kind = "unexpected CA asset"

\* C16 witness: the privateKey checker has rejected an encrypted private
\* key, which holds "PRIVATE KEY-----".
C16_Witness ==
  /\ call.fn = "CheckContent"
  /\ call.res.category = "privateKey"
  /\ call.arg = <<"-----BEGIN ", "ENCRYPTED", " ", "PRIVATE KEY-----">>
  /\ call.res.err # Nil

\* The env-scheme orders of the job.
EnvOrders == {i \in 1..N : HasPrefix(cntJSON.Orders[i].URI, <<"e", "n", "v">> \o Sep)}

\* The export line of the env delivery i, with what it has fetched.
LineOf(i, got) ==
  <<"export '">> \o Drop(cntJSON.Orders[i].URI, 6) \o <<"'='">> \o Flatten(got)
    \o <<"'", IF goos = "windows" THEN "\r\n" ELSE "\n">>

\* C17: what is written to the env file stays there, and an env delivery
\* that completes has put its whole line at the end of the file, so the
\* lines stand in the order the deliveries completed; once run has returned
\* nil the file holds one line for every env-scheme order of the job and
\* nothing else.
C17_EnvFileLines ==
  /\ [][/\ Len(envOut'.writes) >= Len(envOut.writes)
        /\ SubSeq(envOut'.writes, 1, Len(envOut.writes)) = envOut.writes
        /\ \A i \in DOMAIN task :
             (/\ task[i].kind = "env"
              /\ task[i].pc # "return"
              /\ task'[i].pc = "return"
              /\ task'[i].err = Nil)
               => envOut'.writes =
                    Append(envOut.writes, [by |-> i, bytes |-> LineOf(i, task'[i].got)])]_vars
  /\ [](pc = "returned" /\ err = Nil
          => /\ Len(envOut.writes) = Cardinality(EnvOrders)
             /\ \A i \in EnvOrders :
                  \E k \in 1..Len(envOut.writes) :
                    envOut.writes[k] = [by |-> i, bytes |-> LineOf(i, task[i].got)])

\* C17 witness: run has returned nil and the env file holds the lines of two
\* env orders, the line of the later order first.
C17_Witness ==
  /\ pc = "returned" /\ err = Nil
  /\ Len(envOut.writes) = 2
  /\ envOut.writes[1].by > envOut.writes[2].by

\* C18: the tokens in the channel limit are those of the deliveries that
\* have sent theirs and have not yet come to the end of their goroutine: a
\* delivery whose Order call is over, with or without an error, gives its
\* token back, and no token is left once all deliveries have finished.
C18_TokensReleased ==
  limit = Cardinality({i \in 1..N : task[i].pc \in {"order", "fetch", "write", "return"}})

\* C19: once run has returned, with a concurrency limit of 1 or more, every
\* goroutine it started has come to its end: none is waiting for a token and none is inside its Order call (and
\* so none writes to the env file that run has closed).
C19_NoGoroutineLeft ==
  (cfg.ConLimit >= 1 /\ pc = "returned")
    => \A i \in 1..N : task[i].pc \in {"none", "done"}

\* C20: once the context of the group is done, by the first failed delivery
\* or by the caller's deadline, no delivery fetches another source and no
\* delivery creates or truncates its destination: the only change to a file
\* is the write of a buffer that a delivery had fetched before.
C20_CancellationStops ==
  [][(g.cancelled \/ deadline)
       => /\ \A i \in DOMAIN task : Len(task'[i].got) <= Len(task[i].got)
          /\ fs' # fs => \E i \in DOMAIN task :
                           /\ task[i].kind = "file" /\ task[i].pc = "write"
                           /\ task'[i].pc # "write" \/ task'[i].n # task[i].n]_vars

\* C21: a delivery takes its sources one at a time in the declared order:
\* the source a fetch reads is the one after those the delivery holds; a
\* file delivery fetches it only once every byte of the earlier sources has
\* been written (its handle stands behind them); and an env delivery writes
\* to the env file once, when it holds every source of the order.
C21_DeclaredOrder ==
  [][\A i \in DOMAIN task :
       /\ Len(task'[i].got) > Len(task[i].got)
            => /\ task[i].n = Len(task[i].got) + 1
               /\ task'[i].got =
                    Append(task[i].got, Fetch(catalogSets[i][task[i].n], fs, FALSE).buf)
               /\ task[i].kind = "file"
                    => /\ task[i].off = Len(Flatten(task[i].got))
                       /\ task[i].buf = <<>>
       /\ (task[i].kind = "env" /\ task[i].pc = "write" /\ envOut' # envOut
             /\ task'[i].pc # "write")
            => /\ Len(task[i].got) = Len(cntJSON.Orders[i].CatalogAliases)
               /\ EnvWritesOf(i) = <<>>
               /\ task[i].err = Nil]_vars

\* C21 witness: the delivery of root and sub for file://a has written root
\* to the file and is about to fetch sub.
C21_Witness ==
  \E i \in 1..N :
    /\ task[i].kind = "file" /\ task[i].pc = "fetch"
    /\ task[i].n = 2 /\ task[i].off = Len(RootCert)
    /\ cntJSON.Orders[i].CatalogAliases = <<"root", "sub">>
    /\ fs[<<"a">>] = File(RootCert)

\* C22: the catalog sets createCatalogSets returns are one list per order,
\* in the order of the orders; the list of order i is as long as the alias
\* sequence of the order, and its j-th adapter is built from the (first)
\* catalog entry that has the j-th alias: its alias, its URI and the checker
\* of its category.  A repeated alias gives a repeated adapter.
C22_CatalogSets ==
  (pc \in {"loop", "returned"} /\ catalogSets # <<>>)
    => /\ Len(catalogSets) = N
       /\ \A i \in 1..N :
            LET aliases == cntJSON.Orders[i].CatalogAliases
            IN  /\ Len(catalogSets[i]) = Len(aliases)
                /\ \A j \in 1..Len(aliases) :
                     \E c \in 1..Len(cntJSON.Catalogs) :
                       /\ cntJSON.Catalogs[c].Alias = aliases[j]
                       /\ \A b \in 1..(c - 1) : cntJSON.Catalogs[b].Alias # aliases[j]
                       /\ catalogSets[i][j].alias = aliases[j]
                       /\ catalogSets[i][j].uri.text = cntJSON.Catalogs[c].URI
                       /\ catalogSets[i][j].checker = cntJSON.Catalogs[c].Category
                       /\ HasPrefix(cntJSON.Catalogs[c].URI, catalogSets[i][j].uri.scheme)
                       /\ catalogSets[i][j].kind =
                            (IF catalogSets[i][j].uri.scheme = <<"f", "i", "l", "e">>
                             THEN "file" ELSE "github")

\* C22 witness: for the orders of root and sub and of sub and sub, the
\* second list holds the adapter of file://d twice.
C22_Witness ==
  /\ pc = "loop"
  /\ N >= 2
  /\ cntJSON.Orders[1].CatalogAliases = <<"root", "sub">>
  /\ cntJSON.Orders[2].CatalogAliases = <<"sub", "sub">>
  /\ Len(catalogSets[2]) = 2
  /\ catalogSets[2][1] = catalogSets[2][2]
  /\ catalogSets[2][1].uri.path = <<"d">>
  /\ catalogSets[1][1].uri.path = <<"c">>

\* The delivery i is a file delivery that has returned the error of a
\* Fetch: os.Create of its destination went through, and Order has returned
\* an error.
FetchFailed(i) ==
  /\ task[i].kind = "file"
  /\ task[i].pc \in {"return", "done"}
  /\ task[i].err # Nil
  /\ CanCreate(task[i].uri.path) /\ task[i].uri.path \in DOMAIN fs

\* C23: when the fetch of the j-th source of a file delivery fails, Order
\* returns the error of that fetch, no later source is fetched, and the
\* destination, which no other delivery has opened, holds the contents of
\* the sources 1..j-1 one after the other and nothing of what it held before
\* (it is empty when j = 1).
C23_FailedFetchLeavesPrefix ==
  \A i \in 1..N :
    FetchFailed(i)
      => /\ task[i].n <= Len(cntJSON.Orders[i].CatalogAliases)
         /\ Len(task[i].got) = task[i].n - 1
         /\ task[i].err.kind \in {"open", "unexpected CA asset", "context canceled"}
         /\ task[i].err.at = catalogSets[i][task[i].n].uri.path
         /\ SoleWriter(i) => fs[task[i].uri.path] = File(Flatten(task[i].got))

\* C23 witness: the delivery of gone for file://b has failed at its first
\* source and b, which held other bytes, is empty; the delivery of root and
\* bad for file://d has failed at its second source and d holds root alone.
C23_Witness ==
  \E i, k \in 1..N :
    /\ FetchFailed(i) /\ task[i].n = 1 /\ task[i].uri.path = <<"b">>
    /\ task[i].err = [kind |-> "open", at |-> <<"m">>]
    /\ InitialFS[<<"b">>] = File(OldContent) /\ fs[<<"b">>] = File(<<>>)
    /\ FetchFailed(k) /\ task[k].n = 2 /\ task[k].uri.path = <<"d">>
    /\ task[k].err = [kind |-> "unexpected CA asset", at |-> <<"c">>]
    /\ InitialFS[<<"d">>] = File(SubCert) /\ fs[<<"d">>] = File(RootCert)

\* What the source of an adapter holds now.
SourceOf(catalog) ==
  IF catalog.kind = "file" THEN fs[catalog.uri.path] ELSE GitHubContent(catalog.uri)

\* The checker of the k-th adapter of delivery i accepts the k-th content
\* the delivery holds.
Accepted(i, k) == CheckContent(catalogSets[i][k].checker, task[i].got[k]) = Nil

\* C24: the bytes a delivery writes are contents its Fetch calls returned
\* after the checker of the source's category accepted them: a file delivery
\* writes the content it fetched last and changes nothing else of the file
\* (but for the zero bytes that fill a file shorter than the handle's
\* offset), an env delivery writes the line made of all its contents; a
\* fetch of a source whose content the checker rejects hands no content to
\* the delivery, which returns an error without another write.
C24_OnlyAcceptedContent ==
  [][\A i \in DOMAIN task :
       /\ (task[i].pc = "write" /\ task[i].kind = "file" /\ task'[i] # task[i])
            => LET t == task[i]
                   old == fs[t.uri.path].data
                   new == fs'[t.uri.path].data
               IN  /\ t.buf = t.got[t.n]
                   /\ Accepted(i, t.n)
                   /\ SubSeq(new, t.off + 1, t.off + Len(t.buf)) = t.buf
                   /\ \A k \in 1..Len(new) :
                        (k <= t.off \/ k > t.off + Len(t.buf))
                          => new[k] = (IF k <= Len(old) THEN old[k] ELSE "NUL")
                   /\ \A p \in DOMAIN fs : p # t.uri.path => fs'[p] = fs[p]
       /\ (task[i].pc = "write" /\ task[i].kind = "env" /\ envOut' # envOut
             /\ task'[i] # task[i])
            => /\ \A k \in 1..Len(task[i].got) : Accepted(i, k)
               /\ envOut'.writes =
                    Append(envOut.writes,
                           [by |-> i,
                            bytes |-> <<"export '">> \o task[i].uri.path \o <<"'='">>
                                        \o Flatten(task[i].got) \o <<"'">>
                                        \o <<IF goos = "windows" THEN "\r\n" ELSE "\n">>])
       /\ (task[i].pc = "fetch" /\ task'[i] # task[i]
             /\ SourceOf(catalogSets[i][task[i].n]).exists
             /\ CheckContent(catalogSets[i][task[i].n].checker,
                             SourceOf(catalogSets[i][task[i].n]).data) # Nil)
            => /\ task'[i].err.kind \in {"unexpected CA asset", "context canceled"}
               /\ task'[i].pc = "return"
               /\ task'[i].got = task[i].got
               /\ fs' = fs /\ envOut' = envOut
       /\ task[i].pc \in {"return", "done"}
            => task'[i].err = task[i].err /\ task'[i].got = task[i].got]_vars

\* C24 witness: the delivery of root and bad for file://d has failed at bad,
\* whose file holds a certificate and no private key; d holds root alone.
C24_Witness ==
  \E i \in 1..N :
    /\ task[i].kind = "file" /\ task[i].pc = "done"
    /\ cntJSON.Orders[i].CatalogAliases = <<"root", "bad">>
    /\ task[i].err.kind = "unexpected CA asset"
    /\ task[i].got = <<RootCert>>
    /\ catalogSets[i][2].checker = "privateKey"
    /\ fs[<<"c">>] = File(RootCert)
    /\ PrivateKeyCheckContent(RootCert) # Nil
    /\ fs[<<"d">>] = File(RootCert)

\* Order k of the job is an env-scheme order: its URI is an env locator.
EnvOrderAt(k) == NewEnvURI(cntJSON.Orders[k].URI).err = Nil

\* C25: run creates the env file at most once, in the iteration of the
\* first order whose URI is an env locator, and the file is empty then; a
\* job without such an order never has the file created; once created the
\* handle is not opened again, and the file only grows, by one write of one
\* env delivery at a time, after everything written before.
C25_EnvFileOnce ==
  /\ [][/\ envFile' # envFile
             => \/ /\ envFile = "nil" /\ envFile' = "open"
                   /\ pc = "loop" /\ idx' = idx + 1
                   /\ EnvOrderAt(idx)
                   /\ \A k \in 1..(idx - 1) : ~EnvOrderAt(k)
                   /\ ~envOut.exists
                   /\ envOut' = [exists |-> TRUE, writes |-> <<>>]
                \/ /\ envFile = "open" /\ envFile' = "closed"
                   /\ pc = "loop" /\ pc' = "returned"
        /\ (envFile' = envFile /\ envOut' # envOut)
             => /\ envFile = "open"
                /\ envOut'.exists
                /\ \E i \in 1..N :
                     /\ task[i].kind = "env" /\ task[i].pc = "write"
                     /\ Len(envOut'.writes) = Len(envOut.writes) + 1
                     /\ SubSeq(envOut'.writes, 1, Len(envOut.writes)) = envOut.writes
                     /\ envOut'.writes[Len(envOut'.writes)].by = i]_vars
  /\ []((\A k \in 1..N : ~EnvOrderAt(k)) => envFile = "nil" /\ ~envOut.exists)
  /\ [](envOut.exists <=> envFile # "nil")

\* C25 witness: two env deliveries have written to the file that run
\* created at the first of them, after a file order.
C25_Witness ==
  /\ envFile = "open"
  /\ Len(envOut.writes) = 2
  /\ envOut.writes[1].by # envOut.writes[2].by
  /\ \E k \in 1..N : ~EnvOrderAt(k)

\* C26: no content is accepted by the privateKey checker and by the
\* encPrivateKey checker: what one of them has accepted the other rejects.
C26_KeyCheckersDisjoint ==
  (call.fn = "CheckContent" /\ call.res.err = Nil)
    => /\ call.res.category = "encPrivateKey"
            => PrivateKeyCheckContent(call.arg) # Nil
       /\ call.res.category = "privateKey"
            => EncryptedPrivateKeyCheckContent(call.arg) # Nil

\* C26 witness: the encPrivateKey checker has accepted an encrypted private
\* key, in which "PRIVATE KEY-----" stands.
C26_Witness ==
  /\ call.fn = "CheckContent"
  /\ call.res.category = "encPrivateKey"
  /\ call.res.err = Nil
  /\ Len(call.arg) = 4
  /\ SubSeq(call.arg, 1, 2) = <<"-----BEGIN ", "ENCRYPTED">>
  /\ Contains(call.arg, <<"PRIVATE KEY-----">>)

\* C27: validate returns nil exactly when every alias of every order is the
\* alias of a catalog entry and no two orders have the same URI text; it
\* does no I/O: up to its return no file is changed or made and no delivery
\* is started.
C27_ValidateNilIff ==
  /\ pc # "validate"
       => (pc # "fatal"
             <=> /\ \A k \in 1..N :
                      \A a \in 1..Len(cntJSON.Orders[k].CatalogAliases) :
                        \E c \in 1..Len(cntJSON.Catalogs) :
                          cntJSON.Catalogs[c].Alias = cntJSON.Orders[k].CatalogAliases[a]
                 /\ \A j, k \in 1..N :
                      j # k => cntJSON.Orders[j].URI # cntJSON.Orders[k].URI)
  /\ pc \in {"validate", "fatal", "run"} => NoIO /\ catalogSets = <<>>
  /\ pc = "fatal" <=> err.kind \in {"undefined alias", "order URI must not be duplicated"}

\* C27 witness: validate has returned nil for a job of three orders, two of
\* them with the URI texts file://a and file:///a.
C27_Witness ==
  /\ pc = "run"
  /\ N = 3
  /\ \E j, k \in 1..N :
       /\ cntJSON.Orders[j].URI = <<"f", "i", "l", "e", ":", "/", "/", "a">>
       /\ cntJSON.Orders[k].URI = <<"f", "i", "l", "e", ":", "/", "/", "/", "a">>
  /\ NoIO

\* C28: an env delivery whose fetch of a source has failed has returned the
\* error of that fetch and has written nothing to the env file; every write
\* in the env file is the whole line of a delivery that holds all the
\* sources of its order.
C28_NoPartialEnvLine ==
  \A i \in 1..N :
    task[i].kind = "env"
      => /\ (task[i].err # Nil /\ task[i].err.kind # "file already closed")
              => /\ task[i].pc \in {"return", "done"}
                 /\ task[i].n <= Len(cntJSON.Orders[i].CatalogAliases)
                 /\ Len(task[i].got) = task[i].n - 1
                 /\ task[i].err.kind \in {"open", "unexpected CA asset", "context canceled"}
                 /\ task[i].err.at = catalogSets[i][task[i].n].uri.path
                 /\ EnvWritesOf(i) = <<>>
         /\ \A k \in 1..Len(envOut.writes) :
              envOut.writes[k].by = i
                => /\ Len(task[i].got) = Len(cntJSON.Orders[i].CatalogAliases)
                   /\ envOut.writes[k].bytes = LineOf(i, task[i].got)

\* C28 witness: the delivery of root and gone for env://Z has fetched root
\* and failed at gone; the env file holds the line of another delivery and
\* nothing of this one.
C28_Witness ==
  \E i, j \in 1..N :
    /\ task[i].kind = "env" /\ task[i].pc = "done"
    /\ task[i].uri.path = <<"Z">>
    /\ task[i].got = <<RootCert>>
    /\ task[i].err = [kind |-> "open", at |-> <<"m">>]
    /\ j # i /\ task[j].kind = "env" /\ task[j].pc = "done" /\ task[j].err = Nil
    /\ Len(envOut.writes) = 1
    /\ envOut.writes[1].by = j

\* C29: in a run of a job that has passed validate, no two deliveries have
\* the same destination path: the paths os.Create receives are pairwise
\* distinct.
C29_DistinctDestinationFiles ==
  \A i, j \in 1..N :
    (i # j /\ task[i].kind = "file" /\ task[j].kind = "file"
       /\ task[i].pc \notin {"none", "start", "order"}
       /\ task[j].pc \notin {"none", "start", "order"})
      => task[i].uri.path # task[j].uri.path

\* C30: in a run of a job that has passed validate, no file that a catalog
\* entry the orders reference names as its source is created, cut or
\* written: it holds what it held at the start, and what a delivery has
\* fetched from it is that content.
C30_SourcesUntouched ==
  pc \in {"loop", "returned"} /\ catalogSets # <<>>
    => \A i \in 1..N : \A k \in 1..Len(catalogSets[i]) :
         catalogSets[i][k].kind = "file"
           => /\ fs[catalogSets[i][k].uri.path] = InitialFS[catalogSets[i][k].uri.path]
              /\ k <= Len(task[i].got)
                   => task[i].got[k] = InitialFS[catalogSets[i][k].uri.path].data

====
